---- MODULE Spec2Model ----
(***************************************************************************)
(* Model of scripts/gpuinfo.py: one run of the nvsmi command (_main), with *)
(* the two external nvidia-smi queries as nondeterministic inputs.         *)
(*                                                                         *)
(* Text is modelled at the level the code inspects it: a token is the      *)
(* sequence of the code points of one field, a line is the sequence of its *)
(* tokens (the result of line.split(", ")), an output is a sequence of     *)
(* lines (the result of split(os.linesep)).  Floats are exact rationals    *)
(* plus the not-a-number value; rounding of IEEE doubles is not modelled.  *)
(* A printed record is the record itself: neither __repr__ nor to_json is  *)
(* modelled.  The run starts in _main, nvidia-smi being on the PATH.       *)
(***************************************************************************)
EXTENDS Integers, Sequences, FiniteSets, TLC

VARIABLES pc, err, mode, ids, uuids, gpu_util_max, mem_util_max, mem_free_min,
          sort, limit, calls, output, gpus, available_gpus,
          gpu_uuid_to_id_map, processes, idx, printed

vars == <<pc, err, mode, ids, uuids, gpu_util_max, mem_util_max, mem_free_min,
          sort, limit, calls, output, gpus, available_gpus,
          gpu_uuid_to_id_map, processes, idx, printed>>

----------------------------------------------------------------------------
(* Bounds of the model *)

\* longest inventory output, in non-blank lines
MaxGpus == 2
\* longest process output, in non-blank lines
MaxProcs == 2
\* largest value of --limit that is tried
MaxLimit == 2

----------------------------------------------------------------------------
(* Tokens: sequences of code points *)

tok_0 == <<48>>
tok_2 == <<50>>
tok_5 == <<53>>
tok_6 == <<54>>
tok_8 == <<56>>
tok_10 == <<49, 48>>
tok_90 == <<57, 48>>
tok_45 == <<52, 53>>
\* "[N/A]", what nvidia-smi prints for a value it cannot report
tok_NA == <<91, 78, 47, 65, 93>>
\* "GPU-a", "GPU-b", "GPU-c"
uuid_a == <<71, 80, 85, 45, 97>>
uuid_b == <<71, 80, 85, 45, 98>>
uuid_c == <<71, 80, 85, 45, 99>>
\* "525.60", "Tesla T4", "SN123", "Enabled", "Active"
tok_driver == <<53, 50, 53, 46, 54, 48>>
tok_name == <<84, 101, 115, 108, 97, 32, 84, 52>>
tok_serial == <<83, 78, 49, 50, 51>>
tok_Enabled == <<69, 110, 97, 98, 108, 101, 100>>
tok_Active == <<65, 99, 116, 105, 118, 101>>
\* "python", "11", "12", "13", "14", "x1"
tok_python == <<112, 121, 116, 104, 111, 110>>
tok_11 == <<49, 49>>
tok_12 == <<49, 50>>
tok_13 == <<49, 51>>
tok_14 == <<49, 52>>
tok_x1 == <<120, 49>>
tok_3 == <<51>>

IsDigit(c) == c >= 48 /\ c <= 57

\* str of decimal digits only (the numeric tokens of the model)
IsDecimal(value) == Len(value) > 0 /\ \A k \in 1..Len(value) : IsDigit(value[k])

RECURSIVE DecimalValue(_)
DecimalValue(value) ==
    IF Len(value) = 0 THEN 0
    ELSE 10 * DecimalValue(SubSeq(value, 1, Len(value) - 1)) + (value[Len(value)] - 48)

\* Python's str < str: lexicographic on code points, a proper prefix is smaller
RECURSIVE StrLt(_, _)
StrLt(a, b) ==
    IF Len(b) = 0 THEN FALSE
    ELSE IF Len(a) = 0 THEN TRUE
    ELSE IF a[1] # b[1] THEN a[1] < b[1]
    ELSE StrLt(Tail(a), Tail(b))

----------------------------------------------------------------------------
(* Floats *)

NaN == [nan |-> TRUE, num |-> 0, den |-> 1]
Float(n) == [nan |-> FALSE, num |-> n, den |-> 1]

\* a <= b, a >= b and a < b of Python floats: False when either is nan
FLe(a, b) == ~a.nan /\ ~b.nan /\ a.num * b.den <= b.num * a.den
FGe(a, b) == ~a.nan /\ ~b.nan /\ a.num * b.den >= b.num * a.den
FLt(a, b) == ~a.nan /\ ~b.nan /\ a.num * b.den < b.num * a.den

IsZero(a) == ~a.nan /\ a.num = 0

\* a / b for b # 0.0 (a / 0.0 raises ZeroDivisionError, also for a nan)
FDiv(a, b) ==
    IF a.nan \/ b.nan THEN NaN
    ELSE [nan |-> FALSE, num |-> a.num * b.den, den |-> a.den * b.num]

FMul(a, b) ==
    IF a.nan \/ b.nan THEN NaN
    ELSE [nan |-> FALSE, num |-> a.num * b.num, den |-> a.den * b.den]

\* to_float_or_inf with 0.0 for a token that is no number
to_float_or_zero(value) ==
    IF IsDecimal(value) THEN Float(DecimalValue(value)) ELSE Float(0)

to_float_or_inf(value) ==
    IF IsDecimal(value) THEN Float(DecimalValue(value)) ELSE NaN

----------------------------------------------------------------------------
(* Records *)

GPU(id, uuid, gpu_util, mem_total, mem_used, mem_free, driver, gpu_name, serial, display_mode, display_active, temperature) ==
    [id |-> id,
     uuid |-> uuid,
     gpu_util |-> gpu_util,
     mem_util |-> FMul(FDiv(mem_used, mem_total), Float(100)),
     mem_total |-> mem_total,
     mem_used |-> mem_used,
     mem_free |-> mem_free,
     driver |-> driver,
     name |-> gpu_name,
     serial |-> serial,
     display_mode |-> display_mode,
     display_active |-> display_active,
     temperature |-> temperature]

\* the exception GPU.__init__ raises, "none" when it returns
GPU_raises(mem_total) ==
    IF IsZero(mem_total) THEN "ZeroDivisionError" ELSE "none"

GPUProcess(pid, process_name, gpu_id, gpu_uuid, gpu_name, used_memory) ==
    [pid |-> pid,
     process_name |-> process_name,
     gpu_id |-> gpu_id,
     gpu_uuid |-> gpu_uuid,
     gpu_name |-> gpu_name,
     used_memory |-> used_memory]

\* Python values of GPUProcess.gpu_id: a str (a GPU's id) or the int -1
PyStr(s) == [type |-> "str", v |-> s]
PyInt(n) == [type |-> "int", v |-> <<n>>]
\* x in s for a set s of str: an int equals no str
PyIn(x, s) == x.type = "str" /\ x.v \in s

----------------------------------------------------------------------------
(* Record parser *)

\* the exception _get_gpu raises on a line, "none" when it returns
_get_gpu_raises(values) ==
    IF Len(values) < 12 THEN "IndexError"
    ELSE GPU_raises(to_float_or_inf(values[4]))

\* _get_gpu handing the two display fields over in the order of the query
_get_gpu_query_order(values) ==
    GPU(values[1], values[2], to_float_or_inf(values[3]),
        to_float_or_inf(values[4]), to_float_or_inf(values[5]),
        to_float_or_inf(values[6]), values[7], values[8], values[9],
        values[10], values[11], to_float_or_inf(values[12]))

_get_gpu(values) ==
    LET id == values[1]
        uuid == values[2]
        gpu_util == to_float_or_inf(values[3])
        mem_total == to_float_or_inf(values[4])
        mem_used == to_float_or_inf(values[5])
        mem_free == to_float_or_inf(values[6])
        driver == values[7]
        gpu_name == values[8]
        serial == values[9]
        display_active == values[10]
        display_mode == values[11]
        temp_gpu == to_float_or_inf(values[12])
    IN  GPU(id, uuid, gpu_util, mem_total, mem_used, mem_free, driver,
            gpu_name, serial, display_mode, display_active, temp_gpu)

\* line.strip() is empty: the line is one token of blanks only
IsBlank(values) ==
    Len(values) = 1 /\ \A k \in 1..Len(values[1]) : values[1][k] \in {9, 32}

NonBlank(lines) == SelectSeq(lines, LAMBDA l : ~IsBlank(l))

\* the first exception of a left-to-right evaluation, "none" when there is none
FirstRaise(raises) ==
    IF \A k \in 1..Len(raises) : raises[k] = "none" THEN "none"
    ELSE LET first == CHOOSE k \in 1..Len(raises) :
                          /\ raises[k] # "none"
                          /\ \A j \in 1..(k - 1) : raises[j] = "none"
         IN  raises[first]

\* consuming the generator get_gpus returns, over the lines of one output
get_gpus_raises(lines) ==
    LET nb == NonBlank(lines)
    IN  FirstRaise([k \in 1..Len(nb) |-> _get_gpu_raises(nb[k])])

get_gpus(lines) ==
    LET nb == NonBlank(lines)
    IN  [k \in 1..Len(nb) |-> _get_gpu(nb[k])]

_get_gpu_proc_raises(values) ==
    IF ~IsDecimal(values[1]) THEN "ValueError"
    ELSE IF Len(values) < 5 THEN "IndexError"
    ELSE "none"

_get_gpu_proc(values, uuid_to_id) ==
    LET pid == DecimalValue(values[1])
        process_name == values[2]
        gpu_uuid == values[3]
        gpu_name == values[4]
        used_memory == to_float_or_inf(values[5])
        gpu_id == IF gpu_uuid \in DOMAIN uuid_to_id
                  THEN PyStr(uuid_to_id[gpu_uuid]) ELSE PyInt(-1)
    IN  GPUProcess(pid, process_name, gpu_id, gpu_uuid, gpu_name, used_memory)

\* the dict built as {gpu.id: gpu.uuid for gpu in ...}
IdToUuidMap(gs) ==
    [i \in {gs[k].id : k \in 1..Len(gs)} |->
        LET last == CHOOSE k \in 1..Len(gs) :
                        /\ gs[k].id = i
                        /\ \A j \in (k + 1)..Len(gs) : gs[j].id # i
        IN  gs[last].uuid]

\* {gpu.uuid: gpu.id for gpu in ...}: a later GPU overwrites an earlier one
UuidToIdMap(gs) ==
    [u \in {gs[k].uuid : k \in 1..Len(gs)} |->
        LET last == CHOOSE k \in 1..Len(gs) :
                        /\ gs[k].uuid = u
                        /\ \A j \in (k + 1)..Len(gs) : gs[j].uuid # u
        IN  gs[last].id]

get_gpu_processes_raises(lines) ==
    LET nb == NonBlank(lines)
    IN  FirstRaise([k \in 1..Len(nb) |-> _get_gpu_proc_raises(nb[k])])

get_gpu_processes(lines, uuid_to_id) ==
    LET nb == NonBlank(lines)
    IN  [k \in 1..Len(nb) |-> _get_gpu_proc(nb[k], uuid_to_id)]

----------------------------------------------------------------------------
(* Filter, sort, limit *)

\* is_gpu_available without the test of the uuid
is_gpu_available_NoUuid(gpu, p_gpu_util_max, p_mem_util_max, p_mem_free_min, include_ids, include_uuids) ==
    /\ FLe(gpu.gpu_util, p_gpu_util_max)
    /\ FLe(gpu.mem_util, p_mem_util_max)
    /\ FGe(gpu.mem_free, p_mem_free_min)
    /\ gpu.id \in include_ids

is_gpu_available(gpu, p_gpu_util_max, p_mem_util_max, p_mem_free_min, include_ids, include_uuids) ==
    /\ FLe(gpu.gpu_util, p_gpu_util_max)
    /\ FLe(gpu.mem_util, p_mem_util_max)
    /\ FGe(gpu.mem_free, p_mem_free_min)
    /\ gpu.id \in include_ids
    /\ gpu.uuid \in include_uuids

\* include_ids or [gpu.id for gpu in gpus]
OrAll(include, all) == IF include = {} THEN all ELSE include

get_available_gpus(gs, p_gpu_util_max, p_mem_util_max, p_mem_free_min, p_include_ids, p_include_uuids) ==
    LET include_ids == OrAll(p_include_ids, {gs[k].id : k \in 1..Len(gs)})
        include_uuids == OrAll(p_include_uuids, {gs[k].uuid : k \in 1..Len(gs)})
    IN  SelectSeq(gs, LAMBDA gpu :
            is_gpu_available(gpu, p_gpu_util_max, p_mem_util_max,
                             p_mem_free_min, include_ids, include_uuids))

\* a < b on the values operator.attrgetter(key) returns
KeyLt(key, a, b) ==
    IF key = "id" THEN StrLt(a.id, b.id)
    ELSE IF key = "gpu_util" THEN FLt(a.gpu_util, b.gpu_util)
    ELSE FLt(a.mem_util, b.mem_util)

\* x placed behind every element that is not greater than it
RECURSIVE InsertSorted(_, _, _)
InsertSorted(key, s, x) ==
    IF Len(s) = 0 THEN <<x>>
    ELSE IF KeyLt(key, x, s[Len(s)])
         THEN Append(InsertSorted(key, SubSeq(s, 1, Len(s) - 1), x), s[Len(s)])
         ELSE Append(s, x)

\* list.sort(key=...): a stable ascending sort
RECURSIVE SortBy(_, _)
SortBy(key, s) ==
    IF Len(s) = 0 THEN <<>>
    ELSE InsertSorted(key, SortBy(key, SubSeq(s, 1, Len(s) - 1)), s[Len(s)])

\* it.islice(iterable, n) raises for a negative n
_take_raises(n) == IF n < 0 THEN "ValueError" ELSE "none"

\* _take that is one record too generous
_take_one_more(n, s) == SubSeq(s, 1, IF n + 1 < Len(s) THEN n + 1 ELSE Len(s))

_take(n, s) == SubSeq(s, 1, IF n < Len(s) THEN n ELSE Len(s))

----------------------------------------------------------------------------
(* What nvidia-smi can answer *)

Seqs(S, n) == UNION {[1..k -> S] : k \in 0..n}

\* utilization.gpu, memory.total, memory.used, memory.free of one GPU
Readings ==
    { <<tok_5, tok_8, tok_2, tok_6>>,
      <<tok_90, tok_8, tok_6, tok_2>>,
      <<tok_NA, tok_8, tok_2, tok_6>>,
      <<tok_5, tok_NA, tok_2, tok_6>>,
      <<tok_5, tok_8, tok_NA, tok_6>>,
      <<tok_5, tok_8, tok_2, tok_NA>>,
      <<tok_5, tok_0, tok_0, tok_0>> }

\* index and uuid of the GPUs of the machine
Devices == { <<tok_2, uuid_a>>, <<tok_10, uuid_b>> }

GpuLine(dev, r) ==
    <<dev[1], dev[2], r[1], r[2], r[3], r[4], tok_driver, tok_name,
      tok_serial, tok_Enabled, tok_Active, tok_45>>

\* a line cut short
ShortGpuLine == <<tok_2, uuid_a, tok_5>>

GpuLines == {GpuLine(dev, r) : dev \in Devices, r \in Readings} \cup {ShortGpuLine}

\* the lines of the runs checked for termination: a usable GPU, a GPU of
\* zero memory.total, a line cut short
FewGpuLines ==
    {GpuLine(dev, r) : dev \in Devices,
                       r \in { <<tok_5, tok_8, tok_2, tok_6>>,
                               <<tok_5, tok_0, tok_0, tok_0>> }}
    \cup {ShortGpuLine}

ProcLines ==
    { <<tok_11, tok_python, uuid_a, tok_name, tok_3>>,
      <<tok_12, tok_python, uuid_b, tok_name, tok_3>>,
      <<tok_13, tok_python, uuid_c, tok_name, tok_3>>,
      <<tok_14, tok_python, uuid_a, tok_name, tok_NA>>,
      <<tok_x1, tok_python, uuid_a, tok_name, tok_3>>,
      <<tok_11, tok_python>> }

\* the output ends with a line separator, so the last line is empty
BlankLine == << <<>> >>

InventoryOutputs == {Append(s, BlankLine) : s \in Seqs(GpuLines, MaxGpus)}
FewInventoryOutputs == {Append(s, BlankLine) : s \in Seqs(FewGpuLines, MaxGpus)}
ProcessOutputs == {Append(s, BlankLine) : s \in Seqs(ProcLines, MaxProcs)}

AllIds == {dev[1] : dev \in Devices}
AllUuids == {dev[2] : dev \in Devices}

Modes == {"none", "ls", "ps"}
SortKeys == {"id", "gpu_util", "mem_util"}
GpuUtilMaxValues == {50, 100}
MemUtilMaxValues == {50, 100}
MemFreeMinValues == {0, 4}
Limits == (-1)..MaxLimit

----------------------------------------------------------------------------
(* The run of one command.  An option of the argparse namespace is bound   *)
(* by the step that first reads it; it holds its default until then.       *)

Init ==
    /\ pc = "main"
    /\ err = "none"
    /\ mode = "none"
    /\ ids = {}
    /\ uuids = {}
    /\ gpu_util_max = Float(100)
    /\ mem_util_max = Float(100)
    /\ mem_free_min = Float(0)
    /\ sort = "id"
    /\ limit = 999
    /\ calls = <<>>
    /\ output = <<>>
    /\ gpus = <<>>
    /\ available_gpus = <<>>
    /\ gpu_uuid_to_id_map = <<>>
    /\ processes = <<>>
    /\ idx = 0
    /\ printed = <<>>

\* an uncaught exception or sys.exit(message) ends the run
Raise(e) == pc' = "error" /\ err' = e

\* _main up to the call of validate_ids_and_uuids
Main ==
    /\ pc = "main"
    /\ \E m \in Modes, i \in SUBSET AllIds, u \in SUBSET AllUuids :
          /\ mode' = m
          /\ IF m = "none"
             THEN ids' = {} /\ uuids' = {} /\ pc' = "done"
             ELSE ids' = i /\ uuids' = u /\ pc' = "validate_get_gpus"
    /\ UNCHANGED <<err, gpu_util_max, mem_util_max, mem_free_min, sort, limit,
                   calls, output, gpus, available_gpus, gpu_uuid_to_id_map,
                   processes, idx, printed>>

\* subprocess.check_output(NVIDIA_SMI_GET_GPUS) in get_gpus
QueryGpus(from, to, answers) ==
    /\ pc = from
    /\ calls' = Append(calls, "gpus")
    /\ \/ output' = output /\ Raise("CalledProcessError")
       \/ \E out \in answers :
             output' = out /\ pc' = to /\ err' = err
    /\ UNCHANGED <<mode, ids, uuids, gpu_util_max, mem_util_max, mem_free_min,
                   sort, limit, gpus, available_gpus, gpu_uuid_to_id_map,
                   processes, idx, printed>>

\* validate_ids_and_uuids: get_gpus()
ValidateGetGpus == QueryGpus("validate_get_gpus", "validate_list", InventoryOutputs)

\* validate_ids_and_uuids: gpus = list(...)
ValidateList ==
    /\ pc = "validate_list"
    /\ IF get_gpus_raises(output) # "none"
       THEN Raise(get_gpus_raises(output)) /\ gpus' = gpus
       ELSE gpus' = get_gpus(output) /\ pc' = "validate_check" /\ err' = err
    /\ UNCHANGED <<mode, ids, uuids, gpu_util_max, mem_util_max, mem_free_min,
                   sort, limit, calls, output, available_gpus,
                   gpu_uuid_to_id_map, processes, idx, printed>>

\* validate_ids_and_uuids without the check of the uuids
validate_ids_only(gs, p_ids, p_uuids) ==
    LET gpu_ids == {gs[k].id : k \in 1..Len(gs)}
        invalid_ids == p_ids \ gpu_ids
    IN  IF invalid_ids # {} THEN "SystemExit" ELSE "none"

\* the message validate_ids_and_uuids exits with, "none" when it returns
validate_ids_and_uuids(gs, p_ids, p_uuids) ==
    LET gpu_ids == {gs[k].id : k \in 1..Len(gs)}
        gpu_uuids == {gs[k].uuid : k \in 1..Len(gs)}
        invalid_ids == p_ids \ gpu_ids
        invalid_uuids == p_uuids \ gpu_uuids
    IN  IF invalid_ids # {} THEN "SystemExit"
        ELSE IF invalid_uuids # {} THEN "SystemExit"
        ELSE "none"

\* validate_ids_and_uuids: the two checks, then the dispatch on args.mode
ValidateCheck ==
    /\ pc = "validate_check"
    /\ IF validate_ids_and_uuids(gpus, ids, uuids) # "none"
       THEN Raise(validate_ids_and_uuids(gpus, ids, uuids))
            /\ UNCHANGED <<output, gpus>>
       ELSE /\ pc' = IF mode = "ls" THEN "ls_get_gpus" ELSE "ps_get_gpus"
            /\ err' = err
            /\ output' = <<>>
            /\ gpus' = <<>>
    /\ UNCHANGED <<mode, ids, uuids, gpu_util_max, mem_util_max, mem_free_min,
                   sort, limit, calls, available_gpus, gpu_uuid_to_id_map,
                   processes, idx, printed>>

----------------------------------------------------------------------------
(* ls *)

\* get_available_gpus: get_gpus()
LsGetGpus == QueryGpus("ls_get_gpus", "ls_available", InventoryOutputs)

\* get_available_gpus: the rest of its body, consumed by list() in _nvsmi_ls
LsAvailable ==
    /\ pc = "ls_available"
    /\ \E gm \in GpuUtilMaxValues, mm \in MemUtilMaxValues, fm \in MemFreeMinValues :
          /\ gpu_util_max' = Float(gm)
          /\ mem_util_max' = Float(mm)
          /\ mem_free_min' = Float(fm)
    /\ IF get_gpus_raises(output) # "none"
       THEN Raise(get_gpus_raises(output)) /\ UNCHANGED <<gpus, available_gpus>>
       ELSE /\ gpus' = get_gpus(output)
            /\ available_gpus' =
                   get_available_gpus(gpus', gpu_util_max', mem_util_max',
                                      mem_free_min', ids, uuids)
            /\ pc' = "ls_sort"
            /\ err' = err
    /\ UNCHANGED <<mode, ids, uuids, sort, limit, calls, output,
                   gpu_uuid_to_id_map, processes, idx, printed>>

\* _nvsmi_ls: gpus.sort(key=operator.attrgetter(args.sort)); the lines and
\* the snapshot, locals of get_available_gpus, are gone by now
LsSort ==
    /\ pc = "ls_sort"
    /\ \E key \in SortKeys : sort' = key
    /\ available_gpus' = SortBy(sort', available_gpus)
    /\ output' = <<>>
    /\ gpus' = <<>>
    /\ pc' = "ls_take"
    /\ UNCHANGED <<err, mode, ids, uuids, gpu_util_max, mem_util_max,
                   mem_free_min, limit, calls, gpu_uuid_to_id_map, processes,
                   idx, printed>>

\* _nvsmi_ls: _take(args.limit, gpus)
LsTake ==
    /\ pc = "ls_take"
    /\ \E n \in Limits : limit' = n
    /\ IF _take_raises(limit') # "none"
       THEN Raise(_take_raises(limit'))
       ELSE pc' = "ls_print" /\ err' = err
    /\ UNCHANGED <<mode, ids, uuids, gpu_util_max, mem_util_max, mem_free_min,
                   sort, calls, output, gpus, available_gpus,
                   gpu_uuid_to_id_map, processes, idx, printed>>

\* _nvsmi_ls: one turn of the for loop, or its end
LsPrint ==
    /\ pc = "ls_print"
    /\ IF idx < Len(_take(limit, available_gpus))
       THEN /\ printed' = Append(printed, _take(limit, available_gpus)[idx + 1])
            /\ idx' = idx + 1
            /\ pc' = pc
       ELSE /\ pc' = "done"
            /\ UNCHANGED <<idx, printed>>
    /\ UNCHANGED <<err, mode, ids, uuids, gpu_util_max, mem_util_max,
                   mem_free_min, sort, limit, calls, output, gpus,
                   available_gpus, gpu_uuid_to_id_map, processes>>

----------------------------------------------------------------------------
(* ps *)

\* get_gpu_processes: get_gpus()
PsGetGpus == QueryGpus("ps_get_gpus", "ps_map", InventoryOutputs)

\* get_gpu_processes: the dict comprehension over the generator
PsMap ==
    /\ pc = "ps_map"
    /\ IF get_gpus_raises(output) # "none"
       THEN Raise(get_gpus_raises(output)) /\ UNCHANGED gpu_uuid_to_id_map
       ELSE /\ gpu_uuid_to_id_map' = UuidToIdMap(get_gpus(output))
            /\ pc' = "ps_get_procs"
            /\ err' = err
    /\ UNCHANGED <<mode, ids, uuids, gpu_util_max, mem_util_max, mem_free_min,
                   sort, limit, calls, output, gpus, available_gpus, processes,
                   idx, printed>>

\* get_gpu_processes: subprocess.check_output(NVIDIA_SMI_GET_PROCS)
PsGetProcs ==
    /\ pc = "ps_get_procs"
    /\ calls' = Append(calls, "procs")
    /\ \/ output' = output /\ Raise("CalledProcessError")
       \/ \E out \in ProcessOutputs :
             output' = out /\ pc' = "ps_list" /\ err' = err
    /\ UNCHANGED <<mode, ids, uuids, gpu_util_max, mem_util_max, mem_free_min,
                   sort, limit, gpus, available_gpus, gpu_uuid_to_id_map,
                   processes, idx, printed>>

\* get_gpu_processes: the list comprehension
PsList ==
    /\ pc = "ps_list"
    /\ IF get_gpu_processes_raises(output) # "none"
       THEN Raise(get_gpu_processes_raises(output)) /\ UNCHANGED processes
       ELSE /\ processes' = get_gpu_processes(output, gpu_uuid_to_id_map)
            /\ pc' = "ps_print"
            /\ err' = err
    /\ UNCHANGED <<mode, ids, uuids, gpu_util_max, mem_util_max, mem_free_min,
                   sort, limit, calls, output, gpus, available_gpus,
                   gpu_uuid_to_id_map, idx, printed>>

\* _nvsmi_ps asking for both the id and the uuid to match
_nvsmi_ps_prints_both(proc, p_ids, p_uuids) ==
    IF p_ids # {} \/ p_uuids # {}
    THEN PyIn(proc.gpu_id, p_ids) /\ proc.gpu_uuid \in p_uuids
    ELSE TRUE

\* whether _nvsmi_ps prints proc
_nvsmi_ps_prints(proc, p_ids, p_uuids) ==
    IF p_ids # {} \/ p_uuids # {}
    THEN PyIn(proc.gpu_id, p_ids) \/ proc.gpu_uuid \in p_uuids
    ELSE TRUE

\* _nvsmi_ps whose print fails on a used_memory that is not a number
PsPrintStrict ==
    /\ pc = "ps_print"
    /\ IF idx < Len(processes)
       THEN IF /\ _nvsmi_ps_prints(processes[idx + 1], ids, uuids)
               /\ processes[idx + 1].used_memory.nan
            THEN Raise("ValueError") /\ UNCHANGED <<idx, printed>>
            ELSE /\ printed' = IF _nvsmi_ps_prints(processes[idx + 1], ids, uuids)
                               THEN Append(printed, processes[idx + 1])
                               ELSE printed
                 /\ idx' = idx + 1
                 /\ pc' = pc
                 /\ err' = err
       ELSE /\ pc' = "done"
            /\ UNCHANGED <<err, idx, printed>>
    /\ UNCHANGED <<mode, ids, uuids, gpu_util_max, mem_util_max,
                   mem_free_min, sort, limit, calls, output, gpus,
                   available_gpus, gpu_uuid_to_id_map, processes>>

\* _nvsmi_ps: one turn of the for loop, or its end
PsPrint ==
    /\ pc = "ps_print"
    /\ IF idx < Len(processes)
       THEN /\ printed' = IF _nvsmi_ps_prints(processes[idx + 1], ids, uuids)
                          THEN Append(printed, processes[idx + 1])
                          ELSE printed
            /\ idx' = idx + 1
            /\ pc' = pc
       ELSE /\ pc' = "done"
            /\ UNCHANGED <<idx, printed>>
    /\ UNCHANGED <<err, mode, ids, uuids, gpu_util_max, mem_util_max,
                   mem_free_min, sort, limit, calls, output, gpus,
                   available_gpus, gpu_uuid_to_id_map, processes>>

----------------------------------------------------------------------------

Next ==
    \/ Main
    \/ ValidateGetGpus
    \/ ValidateList
    \/ ValidateCheck
    \/ LsGetGpus
    \/ LsAvailable
    \/ LsSort
    \/ LsTake
    \/ LsPrint
    \/ PsGetGpus
    \/ PsMap
    \/ PsGetProcs
    \/ PsList
    \/ PsPrint

Spec == Init /\ [][Next]_vars

\* the same command over the fewer inventory answers
FewValidateGetGpus ==
    QueryGpus("validate_get_gpus", "validate_list", FewInventoryOutputs)
FewLsGetGpus == QueryGpus("ls_get_gpus", "ls_available", FewInventoryOutputs)
FewPsGetGpus == QueryGpus("ps_get_gpus", "ps_map", FewInventoryOutputs)

FewNext ==
    \/ Main
    \/ FewValidateGetGpus
    \/ ValidateList
    \/ ValidateCheck
    \/ FewLsGetGpus
    \/ LsAvailable
    \/ LsSort
    \/ LsTake
    \/ LsPrint
    \/ FewPsGetGpus
    \/ PsMap
    \/ PsGetProcs
    \/ PsList
    \/ PsPrint

\* the interpreter runs the command to its end: no step waits on another
FairSpec == Init /\ [][FewNext]_vars /\ WF_vars(FewNext)

----------------------------------------------------------------------------
(* Properties *)

Elems(s) == {s[k] : k \in 1..Len(s)}

\* get_available_gpus has returned to _nvsmi_ls
Filtered == pc = "ls_sort"

\* a list(get_gpus()) has just been built from the lines in output
Parsed == pc \in {"validate_check", "ls_sort"}

HasNaNField(g) ==
    g.gpu_util.nan \/ g.mem_total.nan \/ g.mem_used.nan \/ g.mem_free.nan

C1_IncludeIds == IF ids = {} THEN {g.id : g \in Elems(gpus)} ELSE ids
C1_IncludeUuids == IF uuids = {} THEN {g.uuid : g \in Elems(gpus)} ELSE uuids

C1_AllFiveHold(g, gm, mm, fm) ==
    /\ FLe(g.gpu_util, gm)
    /\ FLe(g.mem_util, mm)
    /\ FGe(g.mem_free, fm)
    /\ g.id \in C1_IncludeIds
    /\ g.uuid \in C1_IncludeUuids

\* C1: get_available_gpus returns exactly the GPUs of its snapshot that meet
\* the two utilisation maxima, the free-memory minimum and the two include
\* sets, an empty include set standing for all ids (uuids) of that snapshot;
\* and no GPU it returns fails the five tests under any wider thresholds.
C1_ExactlyTheAvailable ==
    Filtered =>
        /\ available_gpus =
               SelectSeq(gpus, LAMBDA g :
                   C1_AllFiveHold(g, gpu_util_max, mem_util_max, mem_free_min))
        /\ \A gm \in GpuUtilMaxValues, mm \in MemUtilMaxValues,
              fm \in MemFreeMinValues :
              ( /\ FLe(gpu_util_max, Float(gm))
                /\ FLe(mem_util_max, Float(mm))
                /\ FGe(mem_free_min, Float(fm)) )
              => \A g \in Elems(available_gpus) :
                     C1_AllFiveHold(g, Float(gm), Float(mm), Float(fm))

\* a snapshot of two GPUs of which the tighter thresholds keep one
C1_Witness ==
    /\ Filtered
    /\ ids = {} /\ uuids = {}
    /\ Len(gpus) = 2 /\ Len(available_gpus) = 1
    /\ \A g \in Elems(gpus) : ~HasNaNField(g)
    /\ gpu_util_max = Float(50)

\* C2: building a GPU record never fails on its memory fields: mem_util is
\* mem_used / mem_total * 100 for a non-zero mem_total, and not-a-number for
\* a mem_total that is zero or not-a-number.
C2_MemUtilDefined ==
    /\ err # "ZeroDivisionError"
    /\ Parsed =>
          /\ Len(gpus) = Len(NonBlank(output))
          /\ \A g \in Elems(gpus) :
                IF g.mem_total.nan \/ IsZero(g.mem_total) \/ g.mem_used.nan
                THEN g.mem_util.nan
                ELSE /\ ~g.mem_util.nan
                     /\ g.mem_util.num * g.mem_total.num * g.mem_used.den
                        = 100 * g.mem_used.num * g.mem_total.den * g.mem_util.den

\* the sort key of the claim: the id as the integer it denotes
C3_KeyLe(key, a, b) ==
    IF key = "id" THEN DecimalValue(a.id) <= DecimalValue(b.id)
    ELSE IF key = "gpu_util" THEN FLe(a.gpu_util, b.gpu_util)
    ELSE FLe(a.mem_util, b.mem_util)

C3_NonDecreasing(key, s) ==
    \A k \in 1..(Len(s) - 1) : C3_KeyLe(key, s[k], s[k + 1])

\* t is s rearranged, elements of equal key in the order they have in s
C3_StableRearrangement(key, s, t) ==
    /\ Len(t) = Len(s)
    /\ \E p \in [1..Len(s) -> 1..Len(s)] :
          /\ \A j, k \in 1..Len(s) : j # k => p[j] # p[k]
          /\ \A k \in 1..Len(s) : t[p[k]] = s[k]
          /\ \A j, k \in 1..Len(s) :
                ( /\ j < k
                  /\ C3_KeyLe(key, s[j], s[k])
                  /\ C3_KeyLe(key, s[k], s[j]) ) => p[j] < p[k]

\* C3: the sort of _nvsmi_ls leaves the GPUs in non-decreasing order of the
\* chosen key, the id compared as the integer it denotes, and GPUs of equal
\* key in the order of the filtered snapshot.
C3_SortedByKey ==
    [][ (pc = "ls_sort" /\ pc' = "ls_take") =>
            /\ C3_NonDecreasing(sort', available_gpus')
            /\ C3_StableRearrangement(sort', available_gpus, available_gpus')
      ]_vars


\* C4: a GPU with a not-a-number gpu_util, mem_total, mem_used or mem_free is
\* never returned by get_available_gpus nor printed by ls; the GPUs returned
\* are those returned for the snapshot without such GPUs; and sorting, taking
\* and printing raise nothing but the ValueError of a negative limit.
C4_NaNNeverAvailable ==
    /\ [](mode = "ls" =>
             \A g \in Elems(available_gpus) \cup Elems(printed) : ~HasNaNField(g))
    /\ [](Filtered =>
             \A k \in 1..Len(gpus) :
                 (\E j \in 3..6 : ~IsDecimal(NonBlank(output)[k][j]))
                 => gpus[k] \notin Elems(available_gpus))
    /\ [](Filtered =>
             available_gpus =
                 get_available_gpus(SelectSeq(gpus, LAMBDA g : ~HasNaNField(g)),
                                    gpu_util_max, mem_util_max, mem_free_min,
                                    C1_IncludeIds, C1_IncludeUuids))
    /\ [][ (pc \in {"ls_sort", "ls_take", "ls_print"} /\ pc' = "error")
              => (pc = "ls_take" /\ limit' < 0) ]_vars

\* a snapshot with an unparseable and a usable GPU, the usable one returned
C4_Witness ==
    /\ Filtered
    /\ Len(gpus) = 2 /\ Len(available_gpus) = 1
    /\ gpus[1].mem_used.nan
    /\ available_gpus = <<gpus[2]>>
    /\ gpu_util_max = Float(100) /\ mem_util_max = Float(100)
    /\ mem_free_min = Float(0)

C5_AllPresent ==
    /\ ids \subseteq {g.id : g \in Elems(gpus)}
    /\ uuids \subseteq {g.uuid : g \in Elems(gpus)}

\* C5: validation ends the command, before the handler of the mode runs, when
\* a given id or uuid is not in the snapshot validation took (no further
\* query, nothing filtered, nothing printed), and lets it go on otherwise.
C5_ValidationFirst ==
    /\ [][ pc = "validate_check" =>
              IF C5_AllPresent
              THEN pc' = (IF mode = "ls" THEN "ls_get_gpus" ELSE "ps_get_gpus")
                   /\ err' = "none"
              ELSE pc' = "error" /\ err' = "SystemExit" ]_vars
    /\ [](err = "SystemExit" =>
             /\ pc = "error"
             /\ calls = <<"gpus">>
             /\ available_gpus = <<>>
             /\ processes = <<>>
             /\ printed = <<>>)
    /\ [](pc \in {"validate_get_gpus", "validate_list", "validate_check"} =>
             /\ Len(calls) <= 1
             /\ available_gpus = <<>>
             /\ processes = <<>>
             /\ printed = <<>>)

\* every given id is present, a given uuid is not: the command has ended
C5_Witness ==
    /\ err = "SystemExit"
    /\ mode = "ps"
    /\ Len(gpus) = 1
    /\ ids # {} /\ ids \subseteq {g.id : g \in Elems(gpus)}
    /\ ~(uuids \subseteq {g.uuid : g \in Elems(gpus)})

C6_Shown(p) ==
    IF ids = {} /\ uuids = {} THEN TRUE
    ELSE \/ (p.gpu_id.type = "str" /\ p.gpu_id.v \in ids)
         \/ p.gpu_uuid \in uuids

\* C6: ps prints, in query order, the processes whose resolved gpu_id is in
\* the given ids or whose gpu_uuid is in the given uuids, and every process
\* when neither ids nor uuids are given.
C6_ProcessesShown ==
    (mode = "ps" /\ pc \in {"ps_print", "done"}) =>
        /\ printed = SelectSeq(SubSeq(processes, 1, idx), C6_Shown)
        /\ pc = "done" => idx = Len(processes)

\* ids given, two processes, the one on another GPU left out
C6_Witness ==
    /\ mode = "ps" /\ pc = "done"
    /\ ids # {} /\ uuids = {}
    /\ Len(processes) = 2 /\ Len(printed) = 1
    /\ printed[1] = processes[2]

\* C7: each attribute of a parsed GPU record comes from its own position of
\* the twelve fields of the line: display_active from position 9,
\* display_mode from position 10 (counted from 0).
C7_FieldPositions ==
    Parsed =>
        LET lines == NonBlank(output)
        IN  /\ Len(gpus) = Len(lines)
            /\ \A k \in 1..Len(gpus) :
                  /\ Len(lines[k]) = 12
                  /\ gpus[k].id = lines[k][1]
                  /\ gpus[k].uuid = lines[k][2]
                  /\ gpus[k].gpu_util = to_float_or_inf(lines[k][3])
                  /\ gpus[k].mem_total = to_float_or_inf(lines[k][4])
                  /\ gpus[k].mem_used = to_float_or_inf(lines[k][5])
                  /\ gpus[k].mem_free = to_float_or_inf(lines[k][6])
                  /\ gpus[k].driver = lines[k][7]
                  /\ gpus[k].name = lines[k][8]
                  /\ gpus[k].serial = lines[k][9]
                  /\ gpus[k].display_active = lines[k][10]
                  /\ gpus[k].display_mode = lines[k][11]
                  /\ gpus[k].temperature = to_float_or_inf(lines[k][12])

\* the line of the example: "..., SN123, Enabled, Active, 45"
C7_Witness ==
    /\ Parsed
    /\ Len(gpus) = 1
    /\ NonBlank(output)[1][10] = tok_Enabled
    /\ NonBlank(output)[1][11] = tok_Active
    /\ gpus[1].display_active = tok_Enabled
    /\ gpus[1].display_mode = tok_Active
    /\ gpus[1].mem_util = [nan |-> FALSE, num |-> 200, den |-> 8]

C8_Min(a, b) == IF a < b THEN a ELSE b

\* C8: ls prints the first min(limit, k) of the k filtered and sorted GPUs,
\* in their order, hence at most limit of them.
C8_LimitLast ==
    (mode = "ls" /\ pc \in {"ls_print", "done"}) =>
        /\ printed = SubSeq(available_gpus, 1, idx)
        /\ Len(printed) <= C8_Min(limit, Len(available_gpus))
        /\ pc = "done" =>
              /\ Len(printed) = C8_Min(limit, Len(available_gpus))
              /\ Len(printed) <= limit

\* two GPUs available, a limit of one: the first of the sorted list printed
C8_Witness ==
    /\ mode = "ls" /\ pc = "done"
    /\ limit = 1
    /\ Len(available_gpus) = 2
    /\ printed = <<available_gpus[1]>>

\* the records the command is to print
C9_Selected ==
    IF mode = "ls" THEN SubSeq(available_gpus, 1, C8_Min(limit, Len(available_gpus)))
    ELSE SelectSeq(processes, C6_Shown)

\* C9: an error ends the command before the first record is printed; once a
\* record is printed the command goes on to print every selected record and
\* ends without error.
C9_NoPartialResults ==
    /\ [](pc = "error" => printed = <<>>)
    /\ [][printed # <<>> => pc' # "error"]_vars
    /\ [](pc = "done" => (err = "none" /\ printed = C9_Selected))
    /\ (printed # <<>>) ~> (pc = "done")

\* a command that printed two records and ended
C9_Witness ==
    /\ pc = "done"
    /\ err = "none"
    /\ Len(printed) = 2

\* the snapshot of the call is the parse of the inventory lines in output
C10_MapOfSnapshot(map, lines) ==
    /\ DOMAIN map = {l[2] : l \in Elems(NonBlank(lines))}
    /\ \A u \in DOMAIN map :
          \E l \in Elems(NonBlank(lines)) : l[2] = u /\ l[1] = map[u]

\* C10: get_gpu_processes issues the inventory query and then the process
\* query, once each; the gpu_id of each process it returns is the id that the
\* snapshot of this call gives the process's uuid, or -1 when it gives none;
\* and it raises for no reason but a malformed line or a failed query.
C10_ResolvedInSameCall ==
    /\ [][ (pc = "ps_map" /\ pc' = "ps_get_procs") =>
              C10_MapOfSnapshot(gpu_uuid_to_id_map', output) ]_vars
    /\ [](pc \in {"ps_map", "ps_get_procs"} => SubSeq(calls, 2, Len(calls)) = <<"gpus">>)
    /\ []((pc \in {"ps_list", "ps_print"} \/ (pc = "done" /\ mode = "ps")) =>
             SubSeq(calls, 2, Len(calls)) = <<"gpus", "procs">>)
    /\ []((pc = "ps_print" \/ (pc = "done" /\ mode = "ps")) =>
             /\ Len(processes) = Len(NonBlank(output))
             /\ \A k \in 1..Len(processes) :
                   /\ processes[k].gpu_uuid = NonBlank(output)[k][3]
                   /\ processes[k].gpu_id =
                          IF processes[k].gpu_uuid \in DOMAIN gpu_uuid_to_id_map
                          THEN PyStr(gpu_uuid_to_id_map[processes[k].gpu_uuid])
                          ELSE PyInt(-1))
    /\ [][ (pc = "ps_list" /\ pc' = "error") =>
              \E l \in Elems(NonBlank(output)) : ~IsDecimal(l[1]) \/ Len(l) < 5 ]_vars

\* one process on a GPU of the snapshot, one on a GPU the snapshot lacks
C10_Witness ==
    /\ pc = "ps_print"
    /\ Len(processes) = 2
    /\ processes[1].gpu_id.type = "str"
    /\ processes[2].gpu_id = PyInt(-1)
    /\ processes[2].gpu_uuid \in AllUuids

====
